---- MODULE Spec2Model ----
(***************************************************************************)
(* A model of src/app.py, the Streamlit "Geospatial Data Chatbot":         *)
(* concurrent loading of GeoJSON URLs (load_geojsons / fetch_geojson_data),*)
(* the ArcGIS -> GeoJSON conversion, the map handler, and the chat handler *)
(* (process_query / analyze_geojson).                                      *)
(*                                                                         *)
(* Representation.  A Python str is a sequence of one-character strings.   *)
(* A JSON object is a TLA+ record whose DOMAIN is its key set.  A scalar   *)
(* property value is a tagged record [t |-> "str"|"int"|"bool"|"null"|     *)
(* "list", ...].  A feature's property mapping is an insertion-ordered     *)
(* list of [k, v] pairs, or None.                                          *)
(***************************************************************************)
EXTENDS Integers, Sequences, FiniteSets, TLC

VARIABLES
    geojson_data_list,  \* st.session_state.geojson_data_list
    messages,           \* st.session_state.messages
    tasks,              \* the fetch_geojson_data coroutines of the running load
    page,               \* what the last script run showed / did
    data,               \* fetch_geojson_data: the parsed response body
    geojson             \* fetch_geojson_data: the value returned

vars == <<geojson_data_list, messages, tasks, page, data, geojson>>

\* ------------------------------------------------------------------ bounds
\* URL text inputs modelled (the page has 5, app.py:147).
MaxUrls == 3
\* Chat messages kept in the history before the model stops asking.
MaxMessages == 2

\* ----------------------------------------------------------------- strings
None == [t |-> "null"]

Whitespace == {" ", "\t", "\n"}

\* str.strip() of s is non-empty (the truth value of url.strip()).
StripNonEmpty(s) == \E i \in 1..Len(s) : s[i] \notin Whitespace

LowerChar(c) ==
    CASE c = "A" -> "a"
      [] c = "B" -> "b"
      [] c = "H" -> "h"
      [] c = "S" -> "s"
      [] c = "T" -> "t"
      [] c = "F" -> "f"
      [] OTHER -> c

\* str.lower()
Lower(s) == [i \in 1..Len(s) |-> LowerChar(s[i])]

\* sub in s
Contains(s, sub) ==
    \E i \in 0..(Len(s) - Len(sub)) : SubSeq(s, i + 1, i + Len(sub)) = sub

\* dict.get(k, default)
Get(d, k, default) == IF k \in DOMAIN d THEN d[k] ELSE default

\* ------------------------------------------------------------ the sources
UrlA == <<"a">>
UrlB == <<"b">>
Blank == <<>>
Spaces == <<" ">>

PyStr(s) == [t |-> "str", v |-> s]
PyInt(n) == [t |-> "int", v |-> n]
Dict(items) == [t |-> "dict", items |-> items]

\* An ArcGIS REST feature: attributes and geometry, no "properties".
EsriFeature(v) ==
    [attributes |-> Dict(<<[k |-> <<"s">>, v |-> v]>>), geometry |-> "point"]

\* An ArcGIS REST query response.
PayloadArc ==
    [features |-> <<EsriFeature(PyStr(<<"x">>)), EsriFeature(PyStr(<<"y">>))>>,
     geometryType |-> "esriGeometryPoint"]

\* An ArcGIS REST error body, served with HTTP 200.
PayloadErr == [error |-> "Invalid URL"]

\* The body each URL serves when the request succeeds.
Web(url) == IF url = UrlA THEN PayloadArc ELSE PayloadErr

\* ------------------------------------------------------ fetch_geojson_data
\* A conversion that wraps every payload that has features, ArcGIS or not.
Normalize_AlwaysWrap(d) ==
    IF "features" \in DOMAIN d
    THEN [type |-> "FeatureCollection", features |-> d.features]
    ELSE d

\* A conversion that only adds the type tag to the ArcGIS response.
Normalize_TagOnly(d) ==
    IF "features" \in DOMAIN d /\ "geometryType" \in DOMAIN d
    THEN [type |-> "FeatureCollection"] @@ d
    ELSE d

\* Lines 26-34: the ArcGIS check and the conversion.
Normalize(d) ==
    IF "features" \in DOMAIN d /\ "geometryType" \in DOMAIN d
    THEN [type |-> "FeatureCollection", features |-> d.features]
    ELSE d

\* The body is parsed and converted in one uninterrupted step (no await
\* between line 24's result and the return).
Done(task) == [task EXCEPT !.pc = "done", !.result = Normalize(Web(task.url))]

\* -------------------------------------------------------------------- page
\* The outcome of a script run: the widget shown last (kind), the count in a
\* success message (n), the exception raised (error), the sibling fetches
\* whose results an exception discarded (lost), the datasets handed to
\* create_map (layers), the prompts sent to the model (sent).
Page(kind) ==
    [kind |-> kind, n |-> 0, error |-> "", lost |-> 0, layers |-> <<>>,
     sent |-> <<>>]

Idle == tasks = <<>>

\* ----------------------------------------------------------- load_geojsons
\* Line 123: one coroutine per URL whose strip() is non-empty, in order.
NewTasks(urls) ==
    LET kept == SelectSeq(urls, StripNonEmpty)
    IN  [i \in 1..Len(kept) |-> [url |-> kept[i], pc |-> "get", result |-> None]]

AllDone == \A i \in DOMAIN tasks : tasks[i].pc = "done"

\* Results gathered in the reverse of the order of the coroutines.
GatherResult_Reversed == [i \in DOMAIN tasks |-> tasks[Len(tasks) + 1 - i].result]

\* Line 124: gather returns the results in the order of the coroutines.
GatherResult == [i \in DOMAIN tasks |-> tasks[i].result]

\* A load that starts one coroutine per URL input, blank ones included.
LoadClick_KeepBlank(url_inputs) ==
    /\ Idle
    /\ IF SelectSeq(url_inputs, StripNonEmpty) # <<>>
       THEN /\ tasks' = [i \in DOMAIN url_inputs |->
                            [url |-> url_inputs[i], pc |-> "get", result |-> None]]
            /\ page' = Page("spinner")
       ELSE /\ tasks' = tasks
            /\ page' = Page("error_no_url")
    /\ UNCHANGED <<geojson_data_list, messages, data, geojson>>

\* Lines 151-159, up to the first suspension of asyncio.run.
LoadClick(url_inputs) ==
    /\ Idle
    /\ LET valid_urls == SelectSeq(url_inputs, StripNonEmpty)
       IN  IF valid_urls # <<>>
           THEN /\ tasks' = NewTasks(valid_urls)
                /\ page' = Page("spinner")
           ELSE /\ tasks' = tasks
                /\ page' = Page("error_no_url")
    /\ UNCHANGED <<geojson_data_list, messages, data, geojson>>

\* Line 22: the response headers of task i arrive; line 23 finds a 2xx status.
FetchGet(i) ==
    /\ i \in DOMAIN tasks
    /\ tasks[i].pc = "get"
    /\ tasks' = [tasks EXCEPT ![i].pc = "json"]
    /\ UNCHANGED <<geojson_data_list, messages, page, data, geojson>>

\* A fetch that also stores its result in the session as soon as it has it.
FetchJson_InPlace(i) ==
    /\ i \in DOMAIN tasks
    /\ tasks[i].pc = "json"
    /\ tasks' = [tasks EXCEPT ![i] = Done(tasks[i])]
    /\ geojson_data_list' =
           LET Returned(result) == result # None
           IN  SelectSeq([j \in DOMAIN tasks |-> tasks'[j].result], Returned)
    /\ UNCHANGED <<messages, page, data, geojson>>

\* Lines 24-34: the body of task i arrives, parses, and is converted.
FetchJson(i) ==
    /\ i \in DOMAIN tasks
    /\ tasks[i].pc = "json"
    /\ tasks' = [tasks EXCEPT ![i] = Done(tasks[i])]
    /\ UNCHANGED <<geojson_data_list, messages, page, data, geojson>>

\* The exceptions a fetch raises, by the line that raises them.
FetchErrors(pc) ==
    IF pc = "get" THEN {"ClientConnectorError", "ClientResponseError"}
    ELSE IF pc = "json" THEN {"ContentTypeError"}
    ELSE {}

\* A failing load that keeps the results of the coroutines that returned.
FetchFail_KeepDone(i, error) ==
    /\ i \in DOMAIN tasks
    /\ error \in FetchErrors(tasks[i].pc)
    /\ tasks' = <<>>
    /\ page' = [Page("exception") EXCEPT !.error = error, !.lost = Len(tasks) - 1]
    /\ LET Returned(result) == result # None
       IN  geojson_data_list' = SelectSeq([j \in DOMAIN tasks |-> tasks[j].result],
                                          Returned)
    /\ UNCHANGED <<messages, data, geojson>>

\* Task i raises.  gather (line 124, return_exceptions left False) re-raises
\* the first exception to load_geojsons; nothing catches it in load_geojsons
\* or in main, so asyncio.run cancels the other tasks, the assignment of
\* line 156 never runs and the script run ends with the exception.
FetchFail(i, error) ==
    /\ i \in DOMAIN tasks
    /\ error \in FetchErrors(tasks[i].pc)
    /\ tasks' = <<>>
    /\ page' = [Page("exception") EXCEPT !.error = error, !.lost = Len(tasks) - 1]
    /\ UNCHANGED <<geojson_data_list, messages, data, geojson>>

\* A load that assigns what it has as soon as one coroutine returned.
LoadPublish_Early ==
    /\ \E i \in DOMAIN tasks : tasks[i].pc = "done"
    /\ LET Returned(result) == result # None
           results == SelectSeq(GatherResult, Returned)
       IN  /\ geojson_data_list' = results
           /\ page' = [Page("success") EXCEPT !.n = Len(results)]
    /\ tasks' = <<>>
    /\ UNCHANGED <<messages, data, geojson>>

\* Lines 156-157: every coroutine returned; the list is assigned.
LoadPublish ==
    /\ ~Idle
    /\ AllDone
    /\ geojson_data_list' = GatherResult
    /\ page' = [Page("success") EXCEPT !.n = Len(GatherResult)]
    /\ tasks' = <<>>
    /\ UNCHANGED <<messages, data, geojson>>

\* ---------------------------------------------------------- str utilities
RECURSIVE Split(_, _)
\* str.split(sep) for a one-character separator.
Split(s, sep) ==
    IF \A i \in 1..Len(s) : s[i] # sep
    THEN <<s>>
    ELSE LET i == CHOOSE j \in 1..Len(s) :
                      s[j] = sep /\ \A k \in 1..(j - 1) : s[k] # sep
         IN  <<SubSeq(s, 1, i - 1)>> \o Split(SubSeq(s, i + 1, Len(s)), sep)

RECURSIVE Strip(_)
\* str.strip()
Strip(s) ==
    IF s = <<>> THEN s
    ELSE IF s[1] \in Whitespace THEN Strip(Tail(s))
    ELSE IF s[Len(s)] \in Whitespace THEN Strip(SubSeq(s, 1, Len(s) - 1))
    ELSE s

Digits == <<"0", "1", "2", "3", "4", "5", "6", "7", "8", "9">>

IsDigit(c) == \E d \in 1..10 : Digits[d] = c

\* float(s) returns instead of raising ValueError, for s over digits, ".",
\* "-", "+" and blanks (exponents, "inf", "nan" and "_" are not drawn).
IsFloat(s) ==
    LET t == Strip(s)
        u == IF t # <<>> /\ t[1] \in {"-", "+"} THEN Tail(t) ELSE t
    IN  /\ \A i \in 1..Len(u) : IsDigit(u[i]) \/ u[i] = "."
        /\ \E i \in 1..Len(u) : IsDigit(u[i])
        /\ Cardinality({i \in 1..Len(u) : u[i] = "."}) <= 1

RECURSIVE Decimal(_)
\* str(n) for an int n >= 0.
Decimal(n) ==
    IF n < 10 THEN <<Digits[n + 1]>>
    ELSE Decimal(n \div 10) \o <<Digits[(n % 10) + 1]>>

\* isinstance(value, (str, int, float)); bool is a subclass of int.
IsScalar(value) == value.t \in {"str", "int", "bool"}

\* str(value), as the f-string of line 76 formats it.
Format(value) ==
    CASE value.t = "str" -> value.v
      [] value.t = "int" -> Decimal(value.v)
      [] value.t = "bool" -> IF value.v THEN <<"T", "r", "u", "e">> ELSE <<"F", "a", "l", "s", "e">>

PyBool(b) == [t |-> "bool", v |-> b]

\* ---------------------------------------------------------- analyze_geojson
HowMany == <<"h", "o", "w", " ", "m", "a", "n", "y">>
CountWord == <<"c", "o", "u", "n", "t">>
NumberOf == <<"n", "u", "m", "b", "e", "r", " ", "o", "f">>

\* Line 58.
count_keywords == {HowMany, CountWord, NumberOf}

Analysis(kind, count, key, value) ==
    [kind |-> kind, count |-> count, key |-> key, value |-> value, error |-> ""]

\* Line 91's sentence.
NoAnalysis == Analysis("none", 0, <<>>, <<>>)

Raised(error) == [Analysis("raise", 0, <<>>, <<>>) EXCEPT !.error = error]

RECURSIVE FeaturesOf(_)
\* Lines 63-65: the features of all datasets, concatenated.
FeaturesOf(list) ==
    IF list = <<>> THEN <<>>
    ELSE Get(Head(list), "features", <<>>) \o FeaturesOf(Tail(list))

\* feature.get('properties', {})
PropertiesOf(feature) == Get(feature, "properties", Dict(<<>>))

\* properties.get(key)
Lookup(properties, key) ==
    IF \E i \in DOMAIN properties.items : properties.items[i].k = key
    THEN properties.items[CHOOSE i \in DOMAIN properties.items :
                              properties.items[i].k = key].v
    ELSE None

\* Counter: the distinct items in first-insertion order, each with its count.
CounterAdd(counter, item) ==
    IF \E i \in DOMAIN counter : counter[i].item = item
    THEN [i \in DOMAIN counter |->
             IF counter[i].item = item
             THEN [counter[i] EXCEPT !.count = @ + 1]
             ELSE counter[i]]
    ELSE Append(counter, [item |-> item, count |-> 1])

RECURSIVE CountItems(_, _)
\* Lines 74-76 for one feature's property mapping.
CountItems(counter, items) ==
    IF items = <<>> THEN counter
    ELSE LET key == Head(items).k
             value == Head(items).v
         IN  CountItems(
                 IF IsScalar(value)
                 THEN CounterAdd(counter, key \o <<":">> \o Format(value))
                 ELSE counter,
                 Tail(items))

RECURSIVE PropertyCounts(_, _)
\* Lines 70-76 (every feature's properties is a mapping here).
PropertyCounts(counter, features) ==
    IF features = <<>> THEN counter
    ELSE PropertyCounts(CountItems(counter, PropertiesOf(Head(features)).items),
                        Tail(features))

RECURSIVE MostCommon(_, _)
\* Counter.most_common(n): by count, largest first; equal counts keep their
\* insertion order.
MostCommon(counter, n) ==
    IF n = 0 \/ counter = <<>> THEN <<>>
    ELSE LET best == CHOOSE i \in DOMAIN counter :
                         /\ \A j \in DOMAIN counter : counter[j].count <= counter[i].count
                         /\ \A j \in 1..(i - 1) : counter[j].count < counter[i].count
             rest == [j \in 1..(Len(counter) - 1) |->
                         IF j < best THEN counter[j] ELSE counter[j + 1]]
         IN  <<counter[best].item>> \o MostCommon(rest, n - 1)

\* Line 85: the features whose properties.get(key) == value, value a str.
CountEqual(features, key, value) ==
    Cardinality({i \in DOMAIN features :
                    Lookup(PropertiesOf(features[i]), key) = PyStr(value)})

\* Lines 82-89, for the first of potential_matches found in the query.
MatchResult(features, match) ==
    LET parts == Split(match, ":")
    IN  IF Len(parts) # 2
        THEN Raised("ValueError")
        ELSE Analysis("count", CountEqual(features, parts[1], parts[2]),
                      parts[1], parts[2])

analyze_geojson(list, query) ==
    LET query_lower == Lower(query)
        features_to_count == FeaturesOf(list)
        potential_matches == MostCommon(PropertyCounts(<<>>, features_to_count), 5)
        hits == {i \in DOMAIN potential_matches :
                    Contains(query_lower, Lower(potential_matches[i]))}
    IN  IF /\ \E keyword \in count_keywords : Contains(query_lower, keyword)
           /\ features_to_count # <<>>
        THEN IF \E i \in DOMAIN features_to_count :
                    PropertiesOf(features_to_count[i]) = None
             THEN Raised("AttributeError")
             ELSE IF hits # {}
             THEN MatchResult(features_to_count,
                      potential_matches[CHOOSE i \in hits : \A j \in hits : i <= j])
             ELSE Analysis("total", Len(features_to_count), <<>>, <<>>)
        ELSE NoAnalysis

\* ------------------------------------------------------------ process_query
RECURSIVE KeysOfAll(_)
\* The keys of every feature's properties, one feature after the other.
KeysOfAll(features) ==
    IF features = <<>> THEN <<>>
    ELSE (IF PropertiesOf(Head(features)) = None THEN <<>>
          ELSE LET items == PropertiesOf(Head(features)).items
               IN  [i \in DOMAIN items |-> items[i].k])
         \o KeysOfAll(Tail(features))

\* A summary line that lists the keys of all the features.
SummaryLine_AllFeatures(list, idx) ==
    [dataset |-> idx,
     feature_count |-> Len(Get(list[idx], "features", <<>>)),
     sample_properties |-> KeysOfAll(list[idx].features)]

\* Lines 100-104: the datasets that have features, each with its position,
\* its feature count and the keys of its first feature's properties.
SummaryLine(list, idx) ==
    [dataset |-> idx,
     feature_count |-> Len(Get(list[idx], "features", <<>>)),
     sample_properties |->
         LET items == PropertiesOf(list[idx].features[1]).items
         IN  [i \in DOMAIN items |-> items[i].k]]

HasFeatures(list, idx) == Len(Get(list[idx], "features", <<>>)) > 0

RECURSIVE DataSummary(_, _)
DataSummary(list, idx) ==
    IF idx > Len(list) THEN <<>>
    ELSE (IF HasFeatures(list, idx) THEN <<SummaryLine(list, idx)>> ELSE <<>>)
         \o DataSummary(list, idx + 1)

\* Line 103-104: list(None.keys()) raises when the first feature's
\* properties is null.
SummaryRaises(list) ==
    \E idx \in DOMAIN list :
        HasFeatures(list, idx) /\ PropertiesOf(list[idx].features[1]) = None

\* Line 112.
AiPrompt(list, prompt, analysis_result) ==
    [datasets |-> Len(list), data_summary |-> DataSummary(list, 1),
     query |-> prompt, analysis_result |-> analysis_result]

\* The model's replies; NoReply stands for send_message raising.
Replies == {<<"o", "k">>}
NoReply == <<>>

\* A process_query that returns a count it found without asking the model.
process_query_Short(prompt, list, reply) ==
    LET analysis_result == analyze_geojson(list, prompt)
        ai_prompt == AiPrompt(list, prompt, analysis_result)
        out == [error |-> "", sent |-> <<>>, text |-> <<>>,
                analysis_result |-> NoAnalysis]
    IN  IF SummaryRaises(list)
        THEN [out EXCEPT !.error = "AttributeError"]
        ELSE IF analysis_result.kind = "raise"
        THEN [out EXCEPT !.error = analysis_result.error]
        ELSE IF analysis_result.kind = "count"
        THEN [out EXCEPT !.analysis_result = analysis_result]
        ELSE IF reply = NoReply
        THEN [out EXCEPT !.error = "ModelError", !.sent = <<ai_prompt>>]
        ELSE [out EXCEPT !.sent = <<ai_prompt>>, !.text = reply,
                         !.analysis_result = analysis_result]

\* A process_query that asks the model only when there is a deterministic
\* result to give it.
process_query_SkipUnanalysed(prompt, list, reply) ==
    LET analysis_result == analyze_geojson(list, prompt)
        ai_prompt == AiPrompt(list, prompt, analysis_result)
        out == [error |-> "", sent |-> <<>>, text |-> <<>>,
                analysis_result |-> NoAnalysis]
    IN  IF SummaryRaises(list)
        THEN [out EXCEPT !.error = "AttributeError"]
        ELSE IF analysis_result.kind = "raise"
        THEN [out EXCEPT !.error = analysis_result.error]
        ELSE IF analysis_result.kind = "none"
        THEN [out EXCEPT !.text = reply]
        ELSE IF reply = NoReply
        THEN [out EXCEPT !.error = "ModelError", !.sent = <<ai_prompt>>]
        ELSE [out EXCEPT !.sent = <<ai_prompt>>, !.text = reply,
                         !.analysis_result = analysis_result]

\* The outcome of process_query(prompt, list) when the model answers reply:
\* the exception raised (error), the prompts sent (sent), and the value
\* returned (text, analysis_result: line 118's two parts).
process_query(prompt, list, reply) ==
    LET analysis_result == analyze_geojson(list, prompt)
        ai_prompt == AiPrompt(list, prompt, analysis_result)
        out == [error |-> "", sent |-> <<>>, text |-> <<>>,
                analysis_result |-> NoAnalysis]
    IN  IF SummaryRaises(list)
        THEN [out EXCEPT !.error = "AttributeError"]
        ELSE IF analysis_result.kind = "raise"
        THEN [out EXCEPT !.error = analysis_result.error]
        ELSE IF reply = NoReply
        THEN [out EXCEPT !.error = "ModelError", !.sent = <<ai_prompt>>]
        ELSE [out EXCEPT !.sent = <<ai_prompt>>, !.text = reply,
                         !.analysis_result = analysis_result]

\* ------------------------------------------------------------ main: the chat
Message(role, text, analysis_result) ==
    [role |-> role, text |-> text, analysis_result |-> analysis_result]

\* A chat that asks the model whether or not data is loaded.
ChatInput_NoGuard(prompt, reply) ==
    /\ Idle
    /\ Len(messages) < MaxMessages
    /\ prompt # <<>>
    /\ LET asked == Append(messages, Message("user", prompt, NoAnalysis))
           r == process_query(prompt, geojson_data_list, reply)
       IN  IF r.error # ""
           THEN /\ messages' = asked
                /\ page' = [Page("exception") EXCEPT !.error = r.error,
                                                     !.sent = r.sent]
           ELSE /\ messages' = Append(asked,
                        Message("assistant", r.text, r.analysis_result))
                /\ page' = [Page("answer") EXCEPT !.sent = r.sent]
    /\ UNCHANGED <<geojson_data_list, tasks, data, geojson>>

\* Lines 181-192.
ChatInput(prompt, reply) ==
    /\ Idle
    /\ Len(messages) < MaxMessages
    /\ prompt # <<>>
    /\ LET asked == Append(messages, Message("user", prompt, NoAnalysis))
           r == process_query(prompt, geojson_data_list, reply)
       IN  IF geojson_data_list # <<>>
           THEN IF r.error # ""
                THEN /\ messages' = asked
                     /\ page' = [Page("exception") EXCEPT !.error = r.error,
                                                          !.sent = r.sent]
                ELSE /\ messages' = Append(asked,
                             Message("assistant", r.text, r.analysis_result))
                     /\ page' = [Page("answer") EXCEPT !.sent = r.sent]
           ELSE /\ messages' = asked
                /\ page' = Page("error_no_data")
    /\ UNCHANGED <<geojson_data_list, tasks, data, geojson>>

\* ------------------------------------------------------------- main: the map
\* A visualize that does not look at the dataset list.
Visualize_NoGuard(area_of_interest) ==
    /\ Idle
    /\ LET coords == Split(area_of_interest, ",")
       IN  IF area_of_interest # <<>>
           THEN IF Len(coords) = 2 /\ IsFloat(coords[1]) /\ IsFloat(coords[2])
                THEN page' = [Page("map") EXCEPT !.layers = geojson_data_list]
                ELSE page' = Page("error_coordinates")
           ELSE page' = Page("error_not_loaded")
    /\ UNCHANGED <<geojson_data_list, messages, tasks, data, geojson>>

\* A visualize that does not count the parts of the center input.
Visualize_NoLenCheck(area_of_interest) ==
    /\ Idle
    /\ LET coords == Split(area_of_interest, ",")
       IN  IF geojson_data_list # <<>> /\ area_of_interest # <<>>
           THEN IF IsFloat(coords[1]) /\ IsFloat(coords[Len(coords)])
                THEN page' = [Page("map") EXCEPT !.layers = geojson_data_list]
                ELSE page' = Page("error_coordinates")
           ELSE page' = Page("error_not_loaded")
    /\ UNCHANGED <<geojson_data_list, messages, tasks, data, geojson>>

\* Lines 162-176.  create_map and folium_static are the renderer: the model
\* records the datasets they are given.
Visualize(area_of_interest) ==
    /\ Idle
    /\ LET coords == Split(area_of_interest, ",")
       IN  IF geojson_data_list # <<>> /\ area_of_interest # <<>>
           THEN IF Len(coords) = 2 /\ IsFloat(coords[1]) /\ IsFloat(coords[2])
                THEN page' = [Page("map") EXCEPT !.layers = geojson_data_list]
                ELSE page' = Page("error_coordinates")
           ELSE page' = Page("error_not_loaded")
    /\ UNCHANGED <<geojson_data_list, messages, tasks, data, geojson>>

\* The center inputs drawn: the default of line 149, and malformed ones.
Areas == {<<"3", "9", ".", "0", ",", " ", "-", "7", "6", ".", "7">>, <<"3", "9", ".", "0">>, <<"1", ",", "2", ",", "3">>, <<"x", ",", " ", "1">>, <<>>}

\* The question asked in the loading session.
Hello == <<"w", "h", "e", "r", "e", " ", "i", "s", " ", "i", "t">>

\* ------------------------------------------------------------- the session
Urls == {Blank, Spaces, UrlA, UrlB}

UrlInputs == [1..MaxUrls -> Urls]

Init ==
    /\ geojson_data_list = <<>>
    /\ messages = <<>>
    /\ tasks = <<>>
    /\ page = Page("start")
    /\ data = None
    /\ geojson = None

Next ==
    \/ \E url_inputs \in UrlInputs : LoadClick(url_inputs)
    \/ \E i \in 1..MaxUrls : FetchGet(i)
    \/ \E i \in 1..MaxUrls : FetchJson(i)
    \/ \E i \in 1..MaxUrls, error \in FetchErrors("get") \cup FetchErrors("json") : FetchFail(i, error)
    \/ LoadPublish
    \/ \E area_of_interest \in Areas : Visualize(area_of_interest)
    \/ \E reply \in Replies \cup {NoReply} : ChatInput(Hello, reply)

Spec == Init /\ [][Next]_vars

\* ------------------------------------------------- one conversion, alone
\* Features per dataset drawn.
MaxFeatures == 2

\* A GeoJSON feature; properties is a mapping or null.
GeoFeature(properties) ==
    [type |-> "Feature", geometry |-> "point", properties |-> properties]

Status == <<"s", "t", "a", "t", "u", "s">>
Pop == <<"p", "o", "p">>

FActive == GeoFeature(Dict(<<[k |-> Status, v |-> PyStr(<<"a", "c", "t", "i", "v", "e">>)]>>))
FActiveCap == GeoFeature(Dict(<<[k |-> Status, v |-> PyStr(<<"A", "c", "t", "i", "v", "e">>)]>>))
FPop == GeoFeature(Dict(<<[k |-> Pop, v |-> PyInt(10)]>>))
FNull == GeoFeature(None)
\* A feature whose only property key holds a colon.
FColon == GeoFeature(Dict(<<[k |-> <<"a", ":", "b">>, v |-> PyStr(<<"x">>)]>>))

SeqsUpTo(S, n) == UNION {[1..k -> S] : k \in 0..n}

NoKeys == [k \in {} |-> None]

\* The response bodies drawn: every combination of a type tag, a features
\* array, the geometryType marker and another top-level key, present or not.
RawPayloads ==
    {t @@ f @@ g @@ x :
        t \in {NoKeys, [type |-> "FeatureCollection"], [type |-> "Feature"]},
        f \in {NoKeys} \cup
              {[features |-> fs] :
                  fs \in SeqsUpTo({FActive, FPop, EsriFeature(PyStr(<<"x">>))}, MaxFeatures)},
        g \in {NoKeys, [geometryType |-> "esriGeometryPoint"]},
        x \in {NoKeys, [name |-> "layer"]}}

\* Lines 24-34 on their own: a body arrives ...
InitNormalize ==
    /\ data \in RawPayloads
    /\ geojson = None
    /\ geojson_data_list = <<>>
    /\ messages = <<>>
    /\ tasks = <<>>
    /\ page = Page("start")

\* ... and fetch_geojson_data returns its conversion.
FetchReturn ==
    /\ geojson = None
    /\ geojson' = Normalize(data)
    /\ UNCHANGED <<data, geojson_data_list, messages, tasks, page>>

SpecNormalize == InitNormalize /\ [][FetchReturn]_vars

\* --------------------------------------------------- the chat, on loaded data
\* The datasets a load can leave in the session: feature collections of up
\* to MaxFeatures features, alone, and pairs of short ones; and the empty
\* list of a session that has loaded nothing.
QueryFeatures == {FActive, FActiveCap, FPop, FNull, FColon}

Collection(features) == [type |-> "FeatureCollection", features |-> features]

QueryLists ==
    {<<Collection(fs)>> : fs \in SeqsUpTo(QueryFeatures, MaxFeatures)}
    \cup {<<d1, d2>> : d1, d2 \in {Collection(fs) : fs \in SeqsUpTo(QueryFeatures, 1)}
                                \cup {PayloadErr}}
    \cup {<<>>}

Questions ==
    {<<"c", "o", "u", "n", "t", " ", "a", ":", "b", ":", "x">>,
     <<"h", "o", "w", " ", "m", "a", "n", "y", " ", "s", "t", "a", "t", "u", "s", ":", "a", "c", "t", "i", "v", "e">>, <<"H", "o", "w", " ", "m", "a", "n", "y", " ", "s", "t", "a", "t", "u", "s", ":", "A", "c", "t", "i", "v", "e">>, <<"c", "o", "u", "n", "t", " ", "p", "o", "p", ":", "1", "0">>,
     <<"n", "u", "m", "b", "e", "r", " ", "o", "f", " ", "f", "e", "a", "t", "u", "r", "e", "s">>, <<"a", "v", "e", "r", "a", "g", "e", " ", "p", "o", "p">>, Hello}

InitQuery ==
    /\ geojson_data_list \in QueryLists
    /\ messages = <<>>
    /\ tasks = <<>>
    /\ page = IF geojson_data_list = <<>> THEN Page("start")
              ELSE [Page("success") EXCEPT !.n = Len(geojson_data_list)]
    /\ data = None
    /\ geojson = None

NextQuery ==
    \E prompt \in Questions, reply \in Replies \cup {NoReply} : ChatInput(prompt, reply)

SpecQuery == InitQuery /\ [][NextQuery]_vars

\* ==================================================================== claims
\* The exceptions that come from a fetch.
AllFetchErrors == FetchErrors("get") \cup FetchErrors("json")

\* C1: when one of several concurrent fetches fails, the others are not
\* aborted: no sibling's result is lost to the failure (Spec).
C1_FailureIsolated ==
    (page.kind = "exception" /\ page.error \in AllFetchErrors) => page.lost = 0

\* C2, as stated: no payload is converted before every requested retrieval
\* has completed (Spec).
C2_ConvertAfterAllFetched ==
    (\E i \in DOMAIN tasks : tasks[i].result # None)
        => \A j \in DOMAIN tasks : tasks[j].pc = "done"

\* C2, amended: the session's list is assigned, and the load reported as
\* successful, only in a step taken when every coroutine of the load has
\* returned its converted payload (Spec).
C2_PublishAfterAllFetched ==
    [][(geojson_data_list' # geojson_data_list \/ page'.kind = "success")
          => (~Idle /\ AllDone)]_vars

\* C2's case: a load of several URLs was published.
C2_Witness == page.kind = "success" /\ page.n >= 2

\* C3: the session's list changes only by a load assigning the complete
\* result of gather, and a handler that reads it (the map, the chat) reads
\* the list as it stands, while no load is running (Spec).
C3_SingleWriterWholesale ==
    [][/\ geojson_data_list' # geojson_data_list
             => (~Idle /\ AllDone /\ geojson_data_list' = GatherResult)
       /\ page'.kind = "map"
             => (Idle /\ page'.layers = geojson_data_list
                      /\ geojson_data_list' = geojson_data_list)
       /\ page'.kind = "answer"
             => (Idle /\ geojson_data_list' = geojson_data_list
                      /\ page'.sent[1].datasets = Len(geojson_data_list)
                      /\ page'.sent[1].data_summary = DataSummary(geojson_data_list, 1))
      ]_vars

\* C3's case: the map handler read a list of several datasets.
C3_Witness == page.kind = "map" /\ Len(page.layers) >= 2

\* The question of the last chat run.
LastQuestion ==
    LET asked == {i \in DOMAIN messages : messages[i].role = "user"}
    IN  messages[CHOOSE i \in asked : \A j \in asked : j <= i].text

ChatRan == page.kind \in {"answer", "exception"} /\ messages # <<>>

\* The question says "how many" and names an attribute of a loaded feature
\* with one of its values next to it (key:value).
HowManyMatch(query, list) ==
    /\ Contains(Lower(query), HowMany)
    /\ \E i \in DOMAIN FeaturesOf(list) :
          LET properties == PropertiesOf(FeaturesOf(list)[i])
          IN  /\ properties # None
              /\ \E j \in DOMAIN properties.items :
                    /\ IsScalar(properties.items[j].v)
                    /\ Contains(Lower(query),
                           Lower(properties.items[j].k \o <<":">>
                                 \o Format(properties.items[j].v)))

StatWords == {<<"a", "v", "e", "r", "a", "g", "e">>, <<"m", "e", "a", "n">>, <<"m", "e", "d", "i", "a", "n">>, <<"s", "u", "m">>}

\* C5: a question with neither a counting nor a statistic keyword always
\* reaches the model, with the question in the prompt (SpecQuery).
C5_UnkeyedDelegated ==
    (/\ ChatRan
     /\ \A word \in count_keywords \cup StatWords :
           ~Contains(Lower(LastQuestion), word))
        => (Len(page.sent) = 1 /\ page.sent[1].query = LastQuestion)

\* C6: a payload with no features array at the top level is never in the
\* session's list (Spec).
C6_MalformedNotPublished ==
    \A i \in DOMAIN geojson_data_list : "features" \in DOMAIN geojson_data_list[i]

\* C7: every dataset in the session's list is tagged FeatureCollection and
\* each of its features has a geometry and a property mapping (Spec).
C7_SessionCanonical ==
    \A i \in DOMAIN geojson_data_list :
        LET d == geojson_data_list[i]
        IN  /\ "type" \in DOMAIN d
            /\ d.type = "FeatureCollection"
            /\ "features" \in DOMAIN d
            /\ \A j \in DOMAIN d.features :
                  /\ "geometry" \in DOMAIN d.features[j]
                  /\ "properties" \in DOMAIN d.features[j]

DeclaresCollection(d) == "type" \in DOMAIN d /\ d.type = "FeatureCollection"

HasArcGisKeys(d) == "features" \in DOMAIN d /\ "geometryType" \in DOMAIN d

\* C8, as stated: a payload that declares itself a FeatureCollection is
\* returned unchanged (SpecNormalize).
C8_CollectionUnchanged ==
    (geojson # None /\ DeclaresCollection(data)) => geojson = data

\* C8, amended: such a payload keeps its type and its features; it is
\* returned unchanged unless it has both a features and a geometryType key,
\* and then exactly its type and features are kept; converting the result
\* again changes nothing (SpecNormalize).
C8_CollectionKept ==
    (geojson # None /\ DeclaresCollection(data))
        => /\ geojson.type = data.type
           /\ "features" \in DOMAIN geojson <=> "features" \in DOMAIN data
           /\ "features" \in DOMAIN data => geojson.features = data.features
           /\ ~HasArcGisKeys(data) => geojson = data
           /\ HasArcGisKeys(data) => DOMAIN geojson = {"type", "features"}
           /\ Normalize(geojson) = geojson

\* C8's case: a declared FeatureCollection with a geometryType key and
\* another key was converted.
C8_Witness ==
    /\ geojson # None
    /\ DeclaresCollection(data)
    /\ HasArcGisKeys(data)
    /\ "name" \in DOMAIN data
    /\ geojson # data

\* C9: an ArcGIS response (features and geometryType, no type tag) becomes
\* exactly the FeatureCollection of its features, in order (SpecNormalize).
C9_ArcGisWrapped ==
    (geojson # None /\ HasArcGisKeys(data) /\ "type" \notin DOMAIN data)
        => geojson = [type |-> "FeatureCollection", features |-> data.features]

\* C9's case: an ArcGIS response of two different features was converted.
C9_Witness ==
    /\ geojson # None
    /\ HasArcGisKeys(data)
    /\ "type" \notin DOMAIN data
    /\ Len(data.features) = 2
    /\ data.features[1] # data.features[2]

\* The features whose attribute key equals value, compared as strings
\* without case, or as numbers.
MatchingFeatures(features, key, value) ==
    {i \in DOMAIN features :
        /\ PropertiesOf(features[i]) # None
        /\ LET x == Lookup(PropertiesOf(features[i]), key)
           IN  /\ IsScalar(x)
               /\ \/ Lower(Format(x)) = Lower(value)
                  \/ x.t = "int" /\ IsFloat(value) /\ Decimal(x.v) = Strip(value)}

\* C10: the count reported for attribute A and value V is the number of
\* loaded features whose A equals V, without case, or as numbers (SpecQuery).
C10_CountExact ==
    (page.kind = "answer" /\ page.sent[1].analysis_result.kind = "count")
        => page.sent[1].analysis_result.count =
              Cardinality(MatchingFeatures(FeaturesOf(geojson_data_list),
                                           page.sent[1].analysis_result.key,
                                           page.sent[1].analysis_result.value))

\* The property keys of all the features of a dataset.
AllKeys(d) ==
    LET features == Get(d, "features", <<>>)
    IN  UNION {{PropertiesOf(features[i]).items[j].k :
                   j \in DOMAIN PropertiesOf(features[i]).items} :
               i \in {i \in DOMAIN features : PropertiesOf(features[i]) # None}}

Range(s) == {s[i] : i \in DOMAIN s}

C12_RouterNeverFails ==
    (ChatRan /\ page.kind = "exception") => page.error = "ModelError"

\* A URL input that is empty or holds whitespace only.
IsBlank(url) == \A i \in DOMAIN url : url[i] \in Whitespace

\* What a load click with the URL inputs u has done: one coroutine per
\* non-blank input, and with every input blank none, the error shown and the
\* dataset list as it was.
ClickSkipsBlank(u) ==
    /\ Len(tasks') = Cardinality({i \in DOMAIN u : ~IsBlank(u[i])})
    /\ (\A i \in DOMAIN u : IsBlank(u[i])) =>
          /\ tasks' = <<>>
          /\ page'.kind = "error_no_url"
          /\ geojson_data_list' = geojson_data_list

\* C13: no coroutine ever fetches a blank URL; no load click, whatever the
\* URL inputs, does other than start one coroutine per non-blank input, and
\* with every input blank start none, show the error and leave the dataset
\* list as it was (Spec).
C13_BlankSkipped ==
    /\ [](\A i \in DOMAIN tasks : ~IsBlank(tasks[i].url))
    /\ [](\A u \in UrlInputs : ~ENABLED (LoadClick(u) /\ ~ClickSkipsBlank(u)))

\* C13's case: a load was clicked with every URL input blank.
C13_Witness == page.kind = "error_no_url" /\ tasks = <<>>

\* C14: a page never shows a map of zero datasets, and visualize on an empty
\* dataset list gives no layers to the renderer and shows an error (Spec).
C14_NoMapWhenEmpty ==
    /\ [](page.kind = "map" => page.layers # <<>>)
    /\ [][(geojson_data_list = <<>> /\ \E a \in Areas : Visualize(a)) =>
            /\ page'.kind = "error_not_loaded"
            /\ page'.layers = <<>>]_vars

\* C14's case: visualize was clicked with an empty dataset list.
C14_Witness == page.kind = "error_not_loaded" /\ geojson_data_list = <<>>

\* The center input is two floats separated by one comma.
Parses(a) ==
    LET coords == Split(a, ",")
    IN  Len(coords) = 2 /\ IsFloat(coords[1]) /\ IsFloat(coords[2])

\* C15, as stated: visualize with a center that does not parse ends in the
\* coordinate error, gives nothing to the renderer and leaves the dataset
\* list as it was (Spec).
C15_UnparsedIsCoordinateError ==
    [][\A a \in Areas : (Visualize(a) /\ ~Parses(a)) =>
          /\ page'.kind = "error_coordinates"
          /\ page'.layers = <<>>
          /\ geojson_data_list' = geojson_data_list]_vars

\* C15, amended: visualize with a center that does not parse gives nothing
\* to the renderer and leaves the dataset list as it was; it shows the
\* coordinate error when datasets are loaded and the center is not empty,
\* and the error asking for data and an area otherwise (Spec).
C15_UnparsedNotRendered ==
    [][\A a \in Areas : (Visualize(a) /\ ~Parses(a)) =>
          /\ page'.kind # "map"
          /\ page'.layers = <<>>
          /\ geojson_data_list' = geojson_data_list
          /\ page'.kind = IF geojson_data_list # <<>> /\ a # <<>>
                          THEN "error_coordinates"
                          ELSE "error_not_loaded"]_vars

\* C15's case: visualize was clicked on loaded data with a center that does
\* not parse.
C15_Witness == page.kind = "error_coordinates" /\ geojson_data_list # <<>>

\* The question holds a statistic word and no counting keyword.
StatisticOnly(query) ==
    /\ \E w \in StatWords : Contains(Lower(query), w)
    /\ \A keyword \in count_keywords : ~Contains(Lower(query), keyword)

\* The question names a property key of a loaded feature.
NamesAttribute(query, list) ==
    \E idx \in DOMAIN list : \E key \in AllKeys(list[idx]) :
        Contains(Lower(query), Lower(key))

C17_FailedLoadKeepsList ==
    [][(tasks # <<>> /\ page'.kind = "exception") =>
          /\ page'.error \in AllFetchErrors
          /\ tasks' = <<>>
          /\ geojson_data_list' = geojson_data_list]_vars

\* C17's case: a load failed after a coroutine had returned, with datasets
\* of an earlier load in the list.
C17_Witness ==
    /\ page.kind = "exception"
    /\ page.error \in AllFetchErrors
    /\ page.lost > 0
    /\ geojson_data_list # <<>>

\* The non-blank URL inputs, in order.
NonBlank(u) ==
    LET Kept(url) == ~IsBlank(url)
    IN  SelectSeq(u, Kept)

\* What a load click with the URL inputs u has done: the coroutines have the
\* non-blank inputs as URLs, in input order.
ClickKeepsOrder(u) ==
    /\ Len(tasks') = Len(NonBlank(u))
    /\ \A i \in DOMAIN tasks' : tasks'[i].url = NonBlank(u)[i]

\* C18: a load has one coroutine per non-blank URL input, in input order,
\* for as long as it runs; when it succeeds the i-th dataset of the list is
\* what the fetch of the i-th coroutine's URL returns (Spec).
C18_OneDatasetPerUrlInOrder ==
    /\ [](\A u \in UrlInputs : ~ENABLED (LoadClick(u) /\ ~ClickKeepsOrder(u)))
    /\ [][(tasks # <<>> /\ tasks' # <<>>) =>
            /\ Len(tasks') = Len(tasks)
            /\ \A i \in DOMAIN tasks : tasks'[i].url = tasks[i].url]_vars
    /\ [][(tasks # <<>> /\ page'.kind = "success") =>
            /\ Len(geojson_data_list') = Len(tasks)
            /\ page'.n = Len(tasks)
            /\ \A i \in DOMAIN tasks :
                  geojson_data_list'[i] =
                      IF tasks[i].url = UrlA
                      THEN [type |-> "FeatureCollection",
                            features |-> PayloadArc.features]
                      ELSE PayloadErr]_vars

\* C18's case: a load of three URLs, the first and the third the same,
\* succeeded.
C18_Witness ==
    /\ page.kind = "success"
    /\ Len(geojson_data_list) = 3
    /\ geojson_data_list[1] = geojson_data_list[3]
    /\ geojson_data_list[1] # geojson_data_list[2]

\* C19: an assistant message always follows a user message; while the
\* dataset list is empty no prompt is sent to the model, and a chat question
\* adds the user message alone and shows the error (Spec).
C19_NoDataNoDelegate ==
    /\ [](\A i \in DOMAIN messages : messages[i].role = "assistant" =>
             i > 1 /\ messages[i - 1].role = "user")
    /\ [][geojson_data_list = <<>> => page'.sent = <<>>]_vars
    /\ [][(geojson_data_list = <<>> /\ messages' # messages) =>
            /\ messages' = Append(messages, messages'[Len(messages')])
            /\ messages'[Len(messages')].role = "user"
            /\ page'.kind = "error_no_data"]_vars
    /\ [][(messages' # messages /\ messages'[Len(messages')].role = "assistant") =>
            /\ Len(messages') = Len(messages) + 2
            /\ SubSeq(messages', 1, Len(messages)) = messages
            /\ messages'[Len(messages') - 1].role = "user"
            /\ page'.sent # <<>>
            /\ page'.sent[1].query = messages'[Len(messages') - 1].text]_vars

\* C19's case: a question was asked with an empty dataset list.
C19_Witness ==
    /\ page.kind = "error_no_data"
    /\ geojson_data_list = <<>>
    /\ messages # <<>>
    /\ messages[Len(messages)].role = "user"

\* No key:value pair of a loaded feature is in the question.
NoValueMatch(query, list) ==
    \A i \in DOMAIN FeaturesOf(list) :
        LET properties == PropertiesOf(FeaturesOf(list)[i])
        IN  properties # None =>
               \A j \in DOMAIN properties.items :
                   IsScalar(properties.items[j].v) =>
                       ~Contains(Lower(query),
                            Lower(properties.items[j].k \o <<":">>
                                  \o Format(properties.items[j].v)))

\* C20: an answered counting question that matches no property value has
\* as deterministic result the total of the feature counts of the loaded
\* datasets, 0 when they have no features (SpecQuery).
C20_TotalIsSumOfCounts ==
    (/\ page.kind = "answer"
     /\ \E keyword \in count_keywords : Contains(Lower(LastQuestion), keyword)
     /\ NoValueMatch(LastQuestion, geojson_data_list))
        => /\ page.sent[1].analysis_result.kind = "total"
           /\ page.sent[1].analysis_result.count = Len(FeaturesOf(geojson_data_list))

====
